---- MODULE Spec2Model ----
(***************************************************************************)
(* A model of tomd: the entry point tomd() (src/src/tomd/__init__.py), the *)
(* extension dispatch get_converter() (converters/__init__.py) and the     *)
(* fetch strategy of URLConverter.convert() (converters/url_converter.py). *)
(*                                                                         *)
(* Python strings are TLA+ strings; Len, \o and SubSeq act on them         *)
(* character by character, so prefix tests, lower(), strip(), the suffix   *)
(* of a path and the arXiv regular expression are computed as the code     *)
(* computes them.  Everything outside the repository (file system,         *)
(* network, browser, parsers, the remote rewriting service) is a           *)
(* nondeterministic choice over its possible outcomes.                     *)
(***************************************************************************)
EXTENDS Naturals, Sequences, FiniteSets, TLC

VARIABLES
    pc,          \* position of the running call
    entry,       \* "tomd" or "convert": which function the caller invoked
    input,       \* the `file` / `url` argument, as a string
    llm_enhance, \* tomd's llm_enhance argument
    use_browser, \* URLConverter.use_browser
    path_kind,   \* what the file system holds at `input`: missing, dir, file
    converter,   \* class chosen by get_converter ("" before dispatch)
    pdf_url,     \* URL handed to _download_pdf
    pdf_path,    \* temporary file returned by _download_pdf (0: none)
    temp_files,  \* temporary files that exist on disk
    created,     \* temporary files created by the running call
    req_error,   \* exception raised inside _fetch_with_requests ("" if none)
    conv_out,    \* what the converter stage returned
    markdown,    \* markdown_content / result of the running call
    outcome,     \* "none", "return" or "raise"
    exc,         \* class of the raised exception
    msg,         \* message of the raised exception
    log,         \* calls made so far by the running call, in order
    calls,       \* number of calls started
    extraction,  \* one _extract_content call: its arguments and its result
    loading,     \* one URLConverter construction: the rule file and the table
    rewriting,   \* one _fix_relative_urls call: the text and the joins made
    enhancing,   \* one LLMEnhancer.enhance call: the chunks and the answers
    splitting    \* one _split_content call: its arguments and its result

vars == <<pc, entry, input, llm_enhance, use_browser, path_kind, converter,
          pdf_url, pdf_path, temp_files, created, req_error, conv_out,
          markdown, outcome, exc, msg, log, calls>>

\* The state of the components that are exercised on their own
side == <<extraction, loading, rewriting, enhancing, splitting>>

\* A component that is not exercised
Off == [pc |-> "off"]

\* Number of tomd()/convert() calls one behaviour makes.
MaxCalls == 2

\* Number of content blocks in the body of a generated page.
MaxBlocks == 2

\* Number of site entries in a generated rule file.
MaxEntries == 2

\* Number of items (texts, images, links) in a generated Markdown text.
MaxItems == 2

\* Number of paragraphs in a generated content.
MaxParas == 3

-----------------------------------------------------------------------------
(* Strings *)

Max(S) == CHOOSE m \in S : \A k \in S : k <= m

Min(S) == CHOOSE m \in S : \A k \in S : m <= k

\* Python's s[a-1:b]: positions a..b of s, cut to the positions s has
Slice(s, a, b) ==
    IF a > b \/ a > Len(s) \/ b < 1 THEN ""
    ELSE SubSeq(s, Max({a, 1}), Min({b, Len(s)}))

\* the character at position i, "" beyond the end
Char(s, i) == Slice(s, i, i)

\* str.startswith(prefix)
startswith(s, p) == Slice(s, 1, Len(p)) = p

\* Python's `sub in s`
Contains(s, sub) ==
    \E i \in 1..(Len(s) + 1) : Slice(s, i, i + Len(sub) - 1) = sub

UPPERCASE == "ABCDEFGHIJKLMNOPQRSTUVWXYZ"

LOWERCASE == "abcdefghijklmnopqrstuvwxyz"

DIGITS == "0123456789"

WHITESPACE == {" ", "\n", "\t", "\r"}

IsDigit(c) == c # "" /\ Contains(DIGITS, c)

LowerChar(c) ==
    LET I == {i \in 1..Len(UPPERCASE) : Char(UPPERCASE, i) = c}
    IN  IF I = {} THEN c ELSE Char(LOWERCASE, Min(I))

\* str.lower()
RECURSIVE lower(_)
lower(s) ==
    IF s = "" THEN ""
    ELSE LowerChar(Char(s, 1)) \o lower(Slice(s, 2, Len(s)))

\* str.strip()
strip(s) ==
    LET I == {i \in 1..Len(s) : Char(s, i) \notin WHITESPACE}
    IN  IF I = {} THEN "" ELSE Slice(s, Min(I), Max(I))

\* Code points order "." < digits < upper case < lower case
ORDER == "." \o DIGITS \o UPPERCASE \o LOWERCASE

Ord(c) == Min({i \in 1..Len(ORDER) : Char(ORDER, i) = c})

\* a < b for Python strings over ORDER
RECURSIVE StrLess(_, _)
StrLess(a, b) ==
    IF b = "" THEN FALSE
    ELSE IF a = "" THEN TRUE
    ELSE IF Char(a, 1) # Char(b, 1) THEN Ord(Char(a, 1)) < Ord(Char(b, 1))
    ELSE StrLess(Slice(a, 2, Len(a)), Slice(b, 2, Len(b)))

\* sorted(S) for a set of strings
RECURSIVE sorted(_)
sorted(S) ==
    IF S = {} THEN <<>>
    ELSE LET m == CHOOSE x \in S : \A y \in S \ {x} : StrLess(x, y)
         IN  <<m>> \o sorted(S \ {m})

\* sep.join(seq)
RECURSIVE join(_, _)
join(sep, seq) ==
    IF seq = <<>> THEN ""
    ELSE IF Len(seq) = 1 THEN seq[1]
    ELSE seq[1] \o sep \o join(sep, Tail(seq))

-----------------------------------------------------------------------------
(* tomd/__init__.py and converters/__init__.py: pure parts *)

\* _is_url with the "https://" prefix forgotten
_is_url_http_only(input_str) == startswith(input_str, "http://")

\* _is_url: input_str.startswith(("http://", "https://"))
_is_url(input_str) ==
    startswith(input_str, "http://") \/ startswith(input_str, "https://")

\* PurePath.name: the last component of the path
PathName(p) ==
    LET I == {i \in 1..Len(p) : Char(p, i) = "/"}
    IN  IF I = {} THEN p ELSE Slice(p, Max(I) + 1, Len(p))

\* PurePath.suffix: from the last dot of the name, when that dot is neither
\* the first nor the last character of the name
PathSuffix(p) ==
    LET n == PathName(p)
        I == {i \in 1..Len(n) : Char(n, i) = "."}
    IN  IF I = {} \/ Max(I) = 1 \/ Max(I) = Len(n) THEN ""
        ELSE Slice(n, Max(I), Len(n))

\* the suffix taken as written, without .lower()
converter_suffix_as_written(file_path) == PathSuffix(file_path)

\* get_converter: suffix = file_path.suffix.lower()
converter_suffix(file_path) == lower(PathSuffix(file_path))

converter_map ==
    [s \in {".html", ".htm", ".txt", ".md", ".pdf", ".docx"} |->
        CASE s = ".html" -> "HTMLConverter"
          [] s = ".htm"  -> "HTMLConverter"
          [] s = ".txt"  -> "TextConverter"
          [] s = ".md"   -> "TextConverter"
          [] s = ".pdf"  -> "PDFConverter"
          [] s = ".docx" -> "DOCXConverter"]

\* get_converter: the class for the path, or the ValueError it raises
get_converter(file_path) ==
    LET suffix == converter_suffix(file_path)
    IN  IF suffix \in DOMAIN converter_map
        THEN [ok |-> TRUE, class |-> converter_map[suffix], msg |-> ""]
        ELSE [ok |-> FALSE, class |-> "",
              msg |-> "Unsupported file format: " \o suffix
                      \o ". Supported formats: "
                      \o join(", ", sorted(DOMAIN converter_map))]

\* the checks with the is_file() test left out
path_check_exists_only(file, exists, is_file) ==
    IF ~exists
    THEN [ok |-> FALSE, exc |-> "FileNotFoundError",
          msg |-> "File not found: " \o file, log |-> <<"exists">>]
    ELSE [ok |-> TRUE, exc |-> "", msg |-> "", log |-> <<"exists">>]

\* tomd: the two checks made on a local path before dispatch
path_check(file, exists, is_file) ==
    IF ~exists
    THEN [ok |-> FALSE, exc |-> "FileNotFoundError",
          msg |-> "File not found: " \o file, log |-> <<"exists">>]
    ELSE IF ~is_file
    THEN [ok |-> FALSE, exc |-> "ValueError",
          msg |-> "Path is not a file: " \o file,
          log |-> <<"exists", "is_file">>]
    ELSE [ok |-> TRUE, exc |-> "", msg |-> "",
          log |-> <<"exists", "is_file">>]

-----------------------------------------------------------------------------
(* converters/url_converter.py: pure parts *)

\* Number of consecutive digits of url from position i on
RECURSIVE DigitRun(_, _)
DigitRun(url, i) ==
    IF i <= Len(url) /\ IsDigit(Char(url, i))
    THEN 1 + DigitRun(url, i + 1)
    ELSE 0

\* Whether arxiv\.org/(abs|pdf)/(\d+\.\d+) matches at position i, and its
\* group 2.  \d+ is greedy; giving digits back cannot help, since the next
\* character would then be a digit and not the dot.
ArxivMatchAt(url, i) ==
    LET j  == i + Len("arxiv.org/")
        k  == j + 4
        d1 == DigitRun(url, k)
        d2 == DigitRun(url, k + d1 + 1)
    IN  IF /\ Slice(url, i, j - 1) = "arxiv.org/"
           /\ Slice(url, j, j + 3) \in {"abs/", "pdf/"}
           /\ d1 >= 1
           /\ Char(url, k + d1) = "."
           /\ d2 >= 1
        THEN [found |-> TRUE, paper_id |-> Slice(url, k, k + d1 + d2)]
        ELSE [found |-> FALSE, paper_id |-> ""]

\* re.search: the leftmost match
ArxivSearch(url) ==
    LET I == {i \in 1..Len(url) : ArxivMatchAt(url, i).found}
    IN  IF I = {} THEN [found |-> FALSE, paper_id |-> ""]
        ELSE ArxivMatchAt(url, Min(I))

_is_arxiv_url(url) == ArxivSearch(url).found

_is_douyin_url(url) == Contains(url, "douyin.com")

_is_wechat_url(url) == Contains(url, "mp.weixin.qq.com")

\* the URL handed on as it came, without the rewrite
_get_arxiv_pdf_url_as_given(url) == url

_get_arxiv_pdf_url(url) ==
    LET match == ArxivSearch(url)
    IN  IF match.found
        THEN "https://arxiv.org/pdf/" \o match.paper_id \o ".pdf"
        ELSE url

\* _fetch_with_browser: headless = not (douyin or wechat)
browser_headless(url) == ~(_is_douyin_url(url) \/ _is_wechat_url(url))

\* an except clause that misses the HTTPError of raise_for_status()
IsTransportError(e) == e = "RequestException"

\* except requests.RequestException: the classes that clause catches
IsRequestException(e) == e \in {"RequestException", "HTTPError"}

\* the strategy with use_browser tested before the arXiv pattern
fetch_strategy_browser_first(url, browser) ==
    IF browser THEN "browser"
    ELSE IF _is_arxiv_url(url) THEN "download"
    ELSE "requests"

\* convert: which fetch the code starts with for a URL
fetch_strategy(url, browser) ==
    IF _is_arxiv_url(url) THEN "download"
    ELSE IF browser THEN "browser"
    ELSE "requests"

\* the header with a single newline after it
source_result_one_newline(url_str, md) ==
    "# Source: " \o url_str \o "\n" \o strip(md)

\* convert: result = f"# Source: {url_str}\n\n{markdown.strip()}"
source_result(url_str, md) == "# Source: " \o url_str \o "\n\n" \o strip(md)

-----------------------------------------------------------------------------
(* Inputs and the outcomes of everything outside the repository *)

Schemes == {"http://", "https://"}

PaperIds == {"1234.5678", "2301.00001"}

ArxivHosts == {"arxiv.org", "www.arxiv.org"}

ArxivForms == {"abs", "pdf"}

ArxivTails == {"", "v2"}

ArxivUrls ==
    {s \o h \o "/" \o f \o "/" \o id \o t :
        s \in Schemes, h \in ArxivHosts, f \in ArxivForms,
        id \in PaperIds, t \in ArxivTails}

PageUrls ==
    {s \o h \o p :
        s \in Schemes,
        h \in {"example.com", "www.douyin.com", "mp.weixin.qq.com"},
        p \in {"/page", "/abs/1234"}}

Urls == ArxivUrls \cup PageUrls

FilePaths ==
    {"a.html", "dir/b.HTM", "notes.txt", "README.md", "paper.pdf",
     "doc.DOCX", "x.xyz", "x.XYZ", "archive.tar.gz", "noext", ".bashrc",
     "v1.0/pages.html", "HTTP://example.com/page", "ftp://example.com/a.html",
     "http:/example.com"}

PathKinds == {"missing", "dir", "file"}

\* what requests.get(...) followed by raise_for_status() can do
RequestOutcomes == {"ok", "RequestException", "HTTPError"}

\* what a file's converter returns: every converter ends with .strip()
FileOutputs == {"", "# Title\n\nbody", "# Source: notes"}

\* what PDFConverter.convert returns
PdfOutputs == {"", "Abstract\n\n---\n\n## Page 2\n\ntext"}

\* what HTML2Text.handle, then _fix_relative_urls, return
RenderedMarkdown == {"", "\n\n", "# T\n\nbody [x](https://site.test/i.png)\n\n"}

\* what enhance_markdown returns
LlmOutputs ==
    {"", "# Enhanced", "# Source: https://example.com/page\n\nbetter"}

-----------------------------------------------------------------------------
(* The state machine *)

\* No call of tomd or of URLConverter.convert is running.
Idle ==
    /\ pc = "idle"
    /\ entry = ""
    /\ input = ""
    /\ llm_enhance = FALSE
    /\ use_browser = FALSE
    /\ path_kind = "missing"
    /\ converter = ""
    /\ pdf_url = ""
    /\ pdf_path = 0
    /\ temp_files = {}
    /\ created = {}
    /\ req_error = ""
    /\ conv_out = ""
    /\ markdown = ""
    /\ outcome = "none"
    /\ exc = ""
    /\ msg = ""
    /\ log = <<>>
    /\ calls = 0

Init ==
    /\ Idle
    /\ extraction = Off
    /\ loading = Off
    /\ rewriting = Off
    /\ enhancing = Off
    /\ splitting = Off

\* The locals of a call that starts: nothing converted, fetched or raised.
FreshLocals ==
    /\ converter' = ""
    /\ pdf_url' = ""
    /\ pdf_path' = 0
    /\ created' = {}
    /\ req_error' = ""
    /\ conv_out' = ""
    /\ markdown' = ""
    /\ outcome' = "none"
    /\ exc' = ""
    /\ msg' = ""

\* the caller invokes tomd(file, llm_enhance); tomd builds URLConverter()
\* with its defaults, so use_browser is False
tomd_Call ==
    /\ pc = "idle"
    /\ calls < MaxCalls
    /\ calls' = calls + 1
    /\ pc' = "tomd"
    /\ entry' = "tomd"
    /\ \E f \in Urls \cup FilePaths, enh \in BOOLEAN, kind \in PathKinds :
          /\ input' = f
          /\ llm_enhance' = enh
          /\ path_kind' = kind
    /\ use_browser' = FALSE
    /\ log' = <<>>
    /\ FreshLocals
    /\ UNCHANGED temp_files
    /\ UNCHANGED side

\* the caller invokes URLConverter(use_browser=...).convert(url)
convert_Call ==
    /\ pc = "idle"
    /\ calls < MaxCalls
    /\ calls' = calls + 1
    /\ pc' = "convert"
    /\ entry' = "convert"
    /\ \E u \in Urls, browser \in BOOLEAN :
          /\ input' = u
          /\ use_browser' = browser
    /\ llm_enhance' = FALSE
    /\ path_kind' = "missing"
    /\ log' = <<"URLConverter.convert">>
    /\ FreshLocals
    /\ UNCHANGED temp_files
    /\ UNCHANGED side

\* the call has returned or raised: its frame is gone, the disk stays
call_Exit ==
    /\ pc = "done"
    /\ pc' = "idle"
    /\ entry' = ""
    /\ input' = ""
    /\ llm_enhance' = FALSE
    /\ use_browser' = FALSE
    /\ path_kind' = "missing"
    /\ log' = <<>>
    /\ FreshLocals
    /\ UNCHANGED <<temp_files, calls>>
    /\ UNCHANGED side

\* raise e(m) out of the running call
Raise(e, m) ==
    /\ pc' = "done"
    /\ outcome' = "raise"
    /\ exc' = e
    /\ msg' = m

\* URLConverter.convert returns md: to the caller, or back into tomd
ConvertReturns(md) ==
    /\ markdown' = md
    /\ IF entry = "convert"
       THEN pc' = "done" /\ outcome' = "return"
       ELSE pc' = "enhance" /\ outcome' = outcome
    /\ UNCHANGED <<exc, msg>>

\* tomd: if _is_url(input_str) ... else ...
tomd_Route ==
    /\ pc = "tomd"
    /\ IF _is_url(input)
       THEN /\ pc' = "convert"
            /\ log' = Append(log, "URLConverter.convert")
       ELSE /\ pc' = "check_path"
            /\ log' = log
    /\ UNCHANGED <<entry, input, llm_enhance, use_browser, path_kind,
                   converter, pdf_url, pdf_path, temp_files, created,
                   req_error, conv_out, markdown, outcome, exc, msg, calls>>
    /\ UNCHANGED side

\* tomd: file_path.exists(), file_path.is_file()
tomd_CheckPath ==
    /\ pc = "check_path"
    /\ LET r == path_check(input, path_kind # "missing", path_kind = "file")
       IN  /\ log' = log \o r.log
           /\ IF r.ok
              THEN pc' = "dispatch" /\ UNCHANGED <<outcome, exc, msg>>
              ELSE Raise(r.exc, r.msg)
    /\ UNCHANGED <<entry, input, llm_enhance, use_browser, path_kind,
                   converter, pdf_url, pdf_path, temp_files, created,
                   req_error, conv_out, markdown, calls>>
    /\ UNCHANGED side

\* tomd: converter = get_converter(file_path)
tomd_GetConverter ==
    /\ pc = "dispatch"
    /\ LET r == get_converter(input)
       IN  /\ log' = Append(log, "get_converter")
           /\ converter' = r.class
           /\ IF r.ok
              THEN pc' = "file_convert" /\ UNCHANGED <<outcome, exc, msg>>
              ELSE Raise("ValueError", r.msg)
    /\ UNCHANGED <<entry, input, llm_enhance, use_browser, path_kind,
                   pdf_url, pdf_path, temp_files, created, req_error,
                   conv_out, markdown, calls>>
    /\ UNCHANGED side

\* tomd: markdown_content = converter.convert(file_path)
tomd_FileConvert ==
    /\ pc = "file_convert"
    /\ log' = Append(log, converter \o ".convert")
    /\ \/ \E out \in FileOutputs :
            /\ conv_out' = out
            /\ markdown' = out
            /\ pc' = "enhance"
            /\ UNCHANGED <<outcome, exc, msg>>
       \/ /\ Raise("ConverterError", "")
          /\ UNCHANGED <<conv_out, markdown>>
    /\ UNCHANGED <<entry, input, llm_enhance, use_browser, path_kind,
                   converter, pdf_url, pdf_path, temp_files, created,
                   req_error, calls>>
    /\ UNCHANGED side

\* tomd: the enhancement pass, and the return
tomd_Enhance ==
    /\ pc = "enhance"
    /\ IF ~llm_enhance
       THEN /\ pc' = "done"
            /\ outcome' = "return"
            /\ UNCHANGED <<markdown, exc, msg, log>>
       ELSE /\ log' = Append(log, "enhance_markdown")
            /\ \/ \E out \in LlmOutputs :
                    /\ markdown' = out
                    /\ pc' = "done"
                    /\ outcome' = "return"
                    /\ UNCHANGED <<exc, msg>>
               \/ /\ Raise("ValueError", "OPENAI_API_KEY not found")
                  /\ UNCHANGED markdown
               \/ /\ Raise("Exception", "LLM enhancement failed")
                  /\ UNCHANGED markdown
    /\ UNCHANGED <<entry, input, llm_enhance, use_browser, path_kind,
                   converter, pdf_url, pdf_path, temp_files, created,
                   req_error, conv_out, calls>>
    /\ UNCHANGED side

\* convert: the arXiv test, then use_browser
convert_Classify ==
    /\ pc = "convert"
    /\ LET strategy == fetch_strategy(input, use_browser)
       IN  IF strategy = "download"
           THEN pc' = "download" /\ pdf_url' = _get_arxiv_pdf_url(input)
           ELSE pc' = strategy /\ pdf_url' = pdf_url
    /\ UNCHANGED <<entry, input, llm_enhance, use_browser, path_kind,
                   converter, pdf_path, temp_files, created, req_error,
                   conv_out, markdown, outcome, exc, msg, log, calls>>
    /\ UNCHANGED side

\* _download_pdf: requests.get(url, timeout=60); response.raise_for_status()
download_pdf_Get ==
    /\ pc = "download"
    /\ log' = Append(log, "_download_pdf")
    /\ \E r \in RequestOutcomes :
          IF r = "ok"
          THEN pc' = "tmp_write" /\ UNCHANGED <<outcome, exc, msg>>
          ELSE Raise(r, "")
    /\ UNCHANGED <<entry, input, llm_enhance, use_browser, path_kind,
                   converter, pdf_url, pdf_path, temp_files, created,
                   req_error, conv_out, markdown, calls>>
    /\ UNCHANGED side

\* _download_pdf: NamedTemporaryFile(delete=False), write, close.  The file
\* exists from its creation on, whether or not the write succeeds.
download_pdf_Write ==
    /\ pc = "tmp_write"
    /\ temp_files' = temp_files \cup {calls}
    /\ created' = created \cup {calls}
    /\ \/ /\ pc' = "pdf_convert"
          /\ pdf_path' = calls
          /\ UNCHANGED <<outcome, exc, msg>>
       \/ /\ Raise("OSError", "")
          /\ UNCHANGED pdf_path
    /\ UNCHANGED <<entry, input, llm_enhance, use_browser, path_kind,
                   converter, pdf_url, req_error, conv_out, markdown, log,
                   calls>>
    /\ UNCHANGED side

\* convert: try: PDFConverter().convert(pdf_path) ... finally: unlink()
convert_Pdf ==
    /\ pc = "pdf_convert"
    /\ log' = Append(log, "PDFConverter.convert")
    /\ temp_files' = temp_files \ {pdf_path}
    /\ \/ \E out \in PdfOutputs :
            /\ conv_out' = out
            /\ ConvertReturns(source_result(input, out))
       \/ /\ Raise("PdfReadError", "")
          /\ UNCHANGED <<conv_out, markdown>>
    /\ UNCHANGED <<entry, input, llm_enhance, use_browser, path_kind,
                   converter, pdf_url, pdf_path, created, req_error, calls>>
    /\ UNCHANGED side

\* convert: try: _fetch_with_requests(url_str)
\*          except requests.RequestException: fall back to the browser
fetch_with_requests ==
    /\ pc = "requests"
    /\ log' = Append(log, "_fetch_with_requests")
    /\ \E r \in RequestOutcomes :
          IF r = "ok"
          THEN /\ pc' = "extract"
               /\ UNCHANGED <<req_error, outcome, exc, msg>>
          ELSE /\ req_error' = r
               /\ IF IsRequestException(r)
                  THEN pc' = "browser" /\ UNCHANGED <<outcome, exc, msg>>
                  ELSE Raise(r, "")
    /\ UNCHANGED <<entry, input, llm_enhance, use_browser, path_kind,
                   converter, pdf_url, pdf_path, temp_files, created,
                   conv_out, markdown, calls>>
    /\ UNCHANGED side

\* _fetch_with_browser: launch(headless=...), goto, content
fetch_with_browser ==
    /\ pc = "browser"
    /\ log' = Append(log, IF browser_headless(input)
                          THEN "_fetch_with_browser:headless"
                          ELSE "_fetch_with_browser:headed")
    /\ \/ pc' = "extract" /\ UNCHANGED <<outcome, exc, msg>>
       \/ Raise("PlaywrightError", "")
    /\ UNCHANGED <<entry, input, llm_enhance, use_browser, path_kind,
                   converter, pdf_url, pdf_path, temp_files, created,
                   req_error, conv_out, markdown, calls>>
    /\ UNCHANGED side

\* convert: _extract_content, converter.handle, _fix_relative_urls, header
convert_Extract ==
    /\ pc = "extract"
    /\ log' = log \o <<"_extract_content", "HTML2Text.handle",
                       "_fix_relative_urls">>
    /\ \E md \in RenderedMarkdown :
          /\ conv_out' = md
          /\ ConvertReturns(source_result(input, md))
    /\ UNCHANGED <<entry, input, llm_enhance, use_browser, path_kind,
                   converter, pdf_url, pdf_path, temp_files, created,
                   req_error, calls>>
    /\ UNCHANGED side

Next ==
    \/ tomd_Call
    \/ convert_Call
    \/ call_Exit
    \/ tomd_Route
    \/ tomd_CheckPath
    \/ tomd_GetConverter
    \/ tomd_FileConvert
    \/ tomd_Enhance
    \/ convert_Classify
    \/ download_pdf_Get
    \/ download_pdf_Write
    \/ convert_Pdf
    \/ fetch_with_requests
    \/ fetch_with_browser
    \/ convert_Extract

Spec == Init /\ [][Next]_<<vars, side>>

TypeOK ==
    /\ pc \in {"idle", "tomd", "check_path", "dispatch", "file_convert",
               "enhance", "convert", "download", "tmp_write", "pdf_convert",
               "requests", "browser", "extract", "done"}
    /\ outcome \in {"none", "return", "raise"}
    /\ calls \in 0..MaxCalls
    /\ temp_files \subseteq 1..MaxCalls

-----------------------------------------------------------------------------
(* Properties *)

InLog(op) == \E i \in DOMAIN log : log[i] = op

Count(op) == Cardinality({i \in DOMAIN log : log[i] = op})

LocalPathOps ==
    {"exists", "is_file", "get_converter", "HTMLConverter.convert",
     "TextConverter.convert", "DOCXConverter.convert"}

FileConvertOps ==
    {"HTMLConverter.convert", "TextConverter.convert",
     "PDFConverter.convert", "DOCXConverter.convert"}

BrowserOps == {"_fetch_with_browser:headless", "_fetch_with_browser:headed"}

NetworkOps == {"_download_pdf", "_fetch_with_requests"} \cup BrowserOps

LoggedOps == {log[i] : i \in DOMAIN log}

FilePcs == {"check_path", "dispatch", "file_convert"}

UrlPcs ==
    {"convert", "download", "tmp_write", "pdf_convert", "requests",
     "browser", "extract"}

HasUrlPrefix(s) == Slice(s, 1, 7) = "http://" \/ Slice(s, 1, 8) = "https://"

\* C1: an input of tomd that begins with http:// or https:// goes to
\* URLConverter.convert and no local-path operation (exists, is_file,
\* get_converter, a file converter chosen by extension) is ever made on it;
\* any other input is handled as a path and causes no network fetch.
C1_UrlRouting ==
    entry = "tomd" =>
        IF HasUrlPrefix(input)
        THEN /\ pc \notin FilePcs
             /\ LoggedOps \cap LocalPathOps = {}
             /\ converter = ""
             /\ pc \notin {"idle", "tomd"} => log[1] = "URLConverter.convert"
        ELSE /\ pc \notin UrlPcs
             /\ LoggedOps \cap NetworkOps = {}
             /\ ~InLog("URLConverter.convert")

\* a URL that names an existing file all the same was fetched and converted
C1_Witness ==
    /\ entry = "tomd"
    /\ startswith(input, "https://")
    /\ path_kind = "file"
    /\ pc = "done"
    /\ outcome = "return"
    /\ InLog("_fetch_with_requests")

SupportedList == ".docx, .htm, .html, .md, .pdf, .txt"

\* What C2 asks of a dispatch on extension ext
DispatchedOn(ext) ==
    IF ext \in {".html", ".htm"} THEN
        /\ converter = "HTMLConverter"
        /\ LoggedOps \cap FileConvertOps \subseteq {"HTMLConverter.convert"}
    ELSE IF ext \in {".txt", ".md"} THEN
        /\ converter = "TextConverter"
        /\ LoggedOps \cap FileConvertOps \subseteq {"TextConverter.convert"}
    ELSE IF ext = ".pdf" THEN
        /\ converter = "PDFConverter"
        /\ LoggedOps \cap FileConvertOps \subseteq {"PDFConverter.convert"}
    ELSE IF ext = ".docx" THEN
        /\ converter = "DOCXConverter"
        /\ LoggedOps \cap FileConvertOps \subseteq {"DOCXConverter.convert"}
    ELSE
        /\ pc = "done"
        /\ outcome = "raise"
        /\ exc = "ValueError"
        /\ msg = "Unsupported file format: " \o ext
                 \o ". Supported formats: " \o SupportedList
        /\ LoggedOps \cap FileConvertOps = {}
        /\ ~InLog("enhance_markdown")

\* C2 as stated: the dispatch is on the extension of the given file as it
\* is written, and the error names exactly that extension.
C2_AsStated ==
    (entry = "tomd" /\ InLog("get_converter")) =>
        DispatchedOn(PathSuffix(input))

\* C2, amended: the dispatch is on the lower-cased extension of the file:
\* .html/.htm select HTMLConverter, .txt/.md TextConverter, .pdf
\* PDFConverter, .docx DOCXConverter, in any letter case; any other
\* extension raises ValueError "Unsupported file format: <lower-cased
\* extension>. Supported formats: <the six extensions, sorted>", and no
\* converter is invoked.
C2_Dispatch ==
    (entry = "tomd" /\ InLog("get_converter")) =>
        DispatchedOn(lower(PathSuffix(input)))

\* an upper-case unsupported extension was refused
C2_Witness ==
    /\ entry = "tomd"
    /\ input = "x.XYZ"
    /\ pc = "done"
    /\ exc = "ValueError"
    /\ InLog("get_converter")

\* C3: for a non-URL input of tomd, a missing path raises
\* FileNotFoundError and an existing path that is no regular file raises
\* ValueError "Path is not a file"; both come before the extension
\* dispatch, whatever the extension, and no converter and no enhancement
\* call is made.
C3_PathErrors ==
    (entry = "tomd" /\ ~HasUrlPrefix(input) /\ path_kind # "file") =>
        /\ pc \in {"tomd", "check_path", "done"}
        /\ LoggedOps \subseteq {"exists", "is_file"}
        /\ pc = "done" =>
            /\ outcome = "raise"
            /\ IF path_kind = "missing"
               THEN /\ exc = "FileNotFoundError"
                    /\ msg = "File not found: " \o input
               ELSE /\ exc = "ValueError"
                    /\ msg = "Path is not a file: " \o input

\* a directory with an unsupported extension, enhancement requested
C3_Witness ==
    /\ entry = "tomd"
    /\ input = "x.xyz"
    /\ path_kind = "dir"
    /\ llm_enhance
    /\ pc = "done"
    /\ exc = "ValueError"

SourceHeader(url) == "# Source: " \o url \o "\n\n"

BeginsWithHeader(md, url) ==
    Slice(md, 1, Len(SourceHeader(url))) = SourceHeader(url)

\* C4 as stated: every successful tomd call on a URL, with or without the
\* enhancement pass, returns Markdown that begins with the line
\* "# Source: <url>" and a blank line; a file's result gets no prefix.
C4_AsStated ==
    (entry = "tomd" /\ pc = "done" /\ outcome = "return") =>
        IF HasUrlPrefix(input)
        THEN BeginsWithHeader(markdown, input)
        ELSE ~llm_enhance => markdown = conv_out

\* C4, amended: on every fetch strategy the Markdown that
\* URLConverter.convert returns begins with the line "# Source: <url>"
\* and a blank line, and tomd returns it as it is when the enhancement
\* pass is off; with the enhancement pass on, that Markdown is what is
\* handed to the enhancer and tomd returns the enhancer's output, to
\* which no header is added; for a file input the pipeline adds no prefix
\* (without enhancement the result is the converter's output).
C4_SourceHeader ==
    /\ (HasUrlPrefix(input) /\ outcome # "raise" /\ pc \in {"enhance", "done"}
        /\ ~InLog("enhance_markdown")) =>
            BeginsWithHeader(markdown, input)
    /\ (HasUrlPrefix(input) /\ pc = "done" /\ outcome = "return"
        /\ InLog("enhance_markdown")) =>
            markdown \in LlmOutputs
    /\ (entry = "tomd" /\ ~HasUrlPrefix(input) /\ pc = "done"
        /\ outcome = "return") =>
            IF llm_enhance THEN markdown \in LlmOutputs
            ELSE markdown = conv_out

\* a page fetched by the browser after the lightweight fetch failed, with
\* nothing but whitespace rendered, returned without enhancement
C4_Witness ==
    /\ entry = "tomd"
    /\ HasUrlPrefix(input)
    /\ ~llm_enhance
    /\ req_error # ""
    /\ conv_out = "\n\n"
    /\ pc = "done"
    /\ outcome = "return"
    /\ markdown = SourceHeader(input)

BrowserCount == Cardinality({i \in DOMAIN log : log[i] \in BrowserOps})

AfterFetch == {"extract", "enhance", "done"}

C6_AsStated ==
    (entry = "tomd" /\ pc = "done" /\ req_error # "") =>
        /\ outcome = "raise"
        /\ exc = req_error

PlatformUrls ==
    {u \in PageUrls :
        Contains(u, "douyin.com") \/ Contains(u, "mp.weixin.qq.com")}

\* C7 as stated: a short-video or gated-article URL is obtained by a
\* non-headless browser fetch whether or not browser mode was requested,
\* and no lightweight GET is issued for it; for every other URL the
\* browser is headless.
C7_AsStated ==
    IF input \in PlatformUrls
    THEN /\ ~InLog("_fetch_with_requests")
         /\ ~InLog("_fetch_with_browser:headless")
         /\ InLog("_extract_content") => InLog("_fetch_with_browser:headed")
    ELSE ~InLog("_fetch_with_browser:headed")

CanonicalPdfUrl(id) == "https://arxiv.org/pdf/" \o id \o ".pdf"

\* C8: for a URL <host>/abs/<id> or <host>/pdf/<id> with a digits.digits
\* identifier, the URL that is downloaded is the canonical PDF URL of
\* that identifier, the same for the abstract form and the pdf form.
C8_CanonicalPdfUrl ==
    \A s \in Schemes, h \in ArxivHosts, f \in ArxivForms,
       id \in PaperIds, t \in ArxivTails :
        (/\ input = s \o h \o "/" \o f \o "/" \o id \o t
         /\ pc \notin {"idle", "tomd", "convert"}) =>
            /\ pdf_url = CanonicalPdfUrl(id)
            /\ pc # "download" => InLog("_download_pdf")
            /\ LoggedOps \cap ({"_fetch_with_requests"} \cup BrowserOps) = {}

\* an abstract page with a version suffix, on the http www host
C8_Witness ==
    /\ input = "http://www.arxiv.org/abs/1234.5678v2"
    /\ InLog("_download_pdf")
    /\ pdf_url = "https://arxiv.org/pdf/1234.5678.pdf"

\* C9 as stated: when the call has returned or raised, no temporary file
\* it created still exists, a failure while writing the bytes included.
C9_AsStated == pc = "done" => created \cap temp_files = {}

PageOps ==
    {"_fetch_with_requests", "_extract_content", "HTML2Text.handle",
     "_fix_relative_urls"} \cup BrowserOps

\* C10: for a URL of the document-download pattern, with or without
\* browser mode: the download is the strategy taken; a failure of the
\* download step propagates with no fallback; the browser fetch, the
\* lightweight fetch, the Content Extractor and the Link Rewriter are
\* never invoked; the body under the header is the PDF converter's output.
C10_DocumentDownload ==
    (input \in ArxivUrls /\ pc \notin {"idle", "tomd", "convert"}) =>
        /\ pc \in {"download", "tmp_write", "pdf_convert", "enhance", "done"}
        /\ LoggedOps \cap PageOps = {}
        /\ pc # "download" => log[2] = "_download_pdf"
        /\ (pc = "done" /\ created = {}) =>
               /\ outcome = "raise"
               /\ exc \in {"RequestException", "HTTPError"}
        /\ (pc = "done" /\ ~InLog("PDFConverter.convert")) => outcome = "raise"
        /\ (pc \in {"enhance", "done"} /\ outcome # "raise"
            /\ ~InLog("enhance_markdown")) =>
               /\ InLog("PDFConverter.convert")
               /\ markdown = SourceHeader(input) \o conv_out

\* browser mode requested, an arXiv URL, downloaded and converted
C10_Witness ==
    /\ entry = "convert"
    /\ use_browser
    /\ input \in ArxivUrls
    /\ pc = "done"
    /\ outcome = "return"
    /\ conv_out # ""


-----------------------------------------------------------------------------
(* The Content Extractor: URLConverter._extract_content.

   A parsed document is the sequence of its elements in document order.
   Each element carries its tag, its depth (0 for a top-level element), its
   id and class attributes ("" when absent) and the text it starts with.
   html.parser adds no element of its own: a document has a body only when
   the markup has one. *)

\* Python's None
None == "<None>"

\* bool(x) of an optional string
Truthy(x) == x # None /\ x # ""

Node(tag, depth, id, class, text) ==
    [tag |-> tag, depth |-> depth, id |-> id, class |-> class, text |-> text]

\* the last element of the subtree rooted at element i
LastOf(doc, i) ==
    Max({i} \cup {j \in (i + 1)..Len(doc) :
                     \A k \in (i + 1)..j : doc[k].depth > doc[i].depth})

\* element j is element i or lies inside it
Within(doc, i, j) == i <= j /\ j <= LastOf(doc, i)

RECURSIVE Keep(_, _, _)
\* the elements of doc from i on that satisfy kept, in document order
Keep(doc, kept, i) ==
    IF i > Len(doc) THEN <<>>
    ELSE (IF i \in kept THEN <<doc[i]>> ELSE <<>>) \o Keep(doc, kept, i + 1)

denied_without_header(tag) == tag \in {"script", "style", "nav", "footer"}

\* the kinds passed to soup([...])
denied(tag) == tag \in {"script", "style", "nav", "footer", "header"}

\* for element in soup([...]): element.decompose()
\* soup(...) is find_all over the whole tree; decompose removes the
\* element with everything inside it
decompose_all(doc) ==
    Keep(doc,
         {j \in DOMAIN doc :
             ~ \E i \in DOMAIN doc : denied(doc[i].tag) /\ Within(doc, i, j)},
         1)

\* the first of the elements hits in document order, 0 when there is none
First(hits) == IF hits = {} THEN 0 ELSE Min(hits)

\* soup.find(tag)
find(doc, tag) == First({i \in DOMAIN doc : doc[i].tag = tag})

RECURSIVE split(_, _)
\* s.split(sep) for a non-empty sep
split(s, sep) ==
    LET hits == {i \in 1..Len(s) : Slice(s, i, i + Len(sep) - 1) = sep}
    IN  IF hits = {} THEN <<s>>
        ELSE LET i == Min(hits)
             IN  <<Slice(s, 1, i - 1)>>
                     \o split(Slice(s, i + Len(sep), Len(s)), sep)

\* the values of a class attribute
ClassTokens(class) ==
    LET parts == split(class, " ")
    IN  {parts[i] : i \in DOMAIN parts} \ {""}

\* the selectors of the rule file and of the callers: #id, .class, tag
Matches(n, selector) ==
    CASE Char(selector, 1) = "#" ->
             n.id # "" /\ n.id = Slice(selector, 2, Len(selector))
      [] Char(selector, 1) = "." ->
             Slice(selector, 2, Len(selector)) \in ClassTokens(n.class)
      [] OTHER -> n.tag = selector

\* soup.select_one(selector)
select_one(doc, selector) ==
    First({i \in DOMAIN doc : Matches(doc[i], selector)})

\* soup.find("div", class_=lambda x: x and "content" in x.lower())
\* bs4 hands the function each class value, then the whole attribute; no
\* match can span the space between two values
find_content_div(doc) ==
    First({i \in DOMAIN doc : /\ doc[i].tag = "div"
                                /\ doc[i].class # ""
                                /\ Contains(lower(doc[i].class), "content")})

OpenTag(n) ==
    "<" \o n.tag
        \o (IF n.id = "" THEN "" ELSE " id=\"" \o n.id \o "\"")
        \o (IF n.class = "" THEN "" ELSE " class=\"" \o n.class \o "\"")
        \o ">"

RECURSIVE CloseTags(_, _)
\* the end tags of the open elements deeper than keep, innermost first
CloseTags(open, keep) ==
    IF Len(open) <= keep THEN ""
    ELSE "</" \o open[Len(open)] \o ">"
             \o CloseTags(SubSeq(open, 1, Len(open) - 1), keep)

RECURSIVE Render(_, _, _, _)
\* the markup of nodes from i on; open holds the tags of the open elements
Render(nodes, i, open, base) ==
    IF i > Len(nodes) THEN CloseTags(open, 0)
    ELSE LET d == nodes[i].depth - base
         IN  CloseTags(open, d) \o OpenTag(nodes[i]) \o nodes[i].text
                 \o Render(nodes, i + 1,
                           Append(SubSeq(open, 1, Min({d, Len(open)})),
                                  nodes[i].tag),
                           base)

\* str(soup)
str_soup(doc) == Render(doc, 1, <<>>, 0)

\* str(element)
str_element(doc, i) ==
    Render(SubSeq(doc, i, LastOf(doc, i)), 1, <<>>, doc[i].depth)


SCHEME_CHARS == LOWERCASE \o UPPERCASE \o DIGITS \o "+-."

\* urlsplit: the position of the ":" that ends the scheme, 0 without scheme
SchemeEnd(url) ==
    LET colons == {i \in 1..Len(url) : Char(url, i) = ":"}
        c == IF colons = {} THEN 0 ELSE Min(colons)
    IN  IF /\ c > 1
           /\ Contains(LOWERCASE \o UPPERCASE, Char(url, 1))
           /\ \A k \in 1..(c - 1) : Contains(SCHEME_CHARS, Char(url, k))
        THEN c
        ELSE 0

\* urlparse(url).netloc: what follows "//" up to the first "/", "?" or "#"
urlparse_netloc(url) ==
    LET rest == Slice(url, SchemeEnd(url) + 1, Len(url))
        after == Slice(rest, 3, Len(rest))
        stops == {i \in 1..Len(after) : Char(after, i) \in {"/", "?", "#"}}
    IN  IF Slice(rest, 1, 2) # "//" THEN ""
        ELSE IF stops = {} THEN after
        ELSE Slice(after, 1, Min(stops) - 1)

RECURSIVE replace(_, _, _)
\* s.replace(old, new) for a non-empty old: every occurrence, left to right
replace(s, old, new) ==
    IF s = "" THEN ""
    ELSE IF startswith(s, old)
         THEN new \o replace(Slice(s, Len(old) + 1, Len(s)), old, new)
         ELSE Char(s, 1) \o replace(Slice(s, 2, Len(s)), old, new)

\* dict.get(key)
Get(table, key) == IF key \in DOMAIN table THEN table[key] ELSE None

\* the key under which a URL is looked up in site_rules
rule_domain(url) == replace(urlparse_netloc(url), "www.", "")

_get_selector_for_url(site_rules, url) == Get(site_rules, rule_domain(url))

determine_selector_rule_first(content_selector, site_rules, url) ==
    IF Truthy(_get_selector_for_url(site_rules, url))
    THEN _get_selector_for_url(site_rules, url)
    ELSE content_selector

\* self.content_selector or self._get_selector_for_url(url)
determine_selector(content_selector, site_rules, url) ==
    IF Truthy(content_selector)
    THEN content_selector
    ELSE _get_selector_for_url(site_rules, url)

\* a or b for two optional elements (0 is None; an element is always true)
Or(a, b) == IF a # 0 THEN a ELSE b

auto_detect_main_first(soup) ==
    Or(find(soup, "main"),
       Or(find(soup, "article"),
          Or(find_content_div(soup), find(soup, "body"))))

\* soup.find("article") or soup.find("main") or soup.find("div", ...)
\* or soup.find("body")
auto_detect(soup) ==
    Or(find(soup, "article"),
       Or(find(soup, "main"),
          Or(find_content_div(soup), find(soup, "body"))))

selector_miss_auto_detect(soup) == auto_detect(soup)

\* the selector matched nothing: main_content = soup.find("body")
selector_miss(soup) == find(soup, "body")

\* the element _extract_content settles on in the stripped document soup,
\* 0 when it settles on none
main_content(soup, selector) ==
    IF Truthy(selector)
    THEN Or(select_one(soup, selector), selector_miss(soup))
    ELSE auto_detect(soup)

\* URLConverter._extract_content(html, url) of a converter with the given
\* content_selector and site_rules
_extract_content(html, url, content_selector, site_rules) ==
    LET soup == decompose_all(html)
        selector == determine_selector(content_selector, site_rules, url)
        found == main_content(soup, selector)
    IN  IF found # 0 THEN str_element(soup, found) ELSE str_soup(soup)


(* Pages: a frame around at most MaxBlocks blocks *)

\* an article inside a page header
HeaderBlock ==
    <<Node("header", 0, "", "", "masthead"),
      Node("article", 1, "", "", "teaser")>>

ArticleBlock ==
    <<Node("article", 0, "", "", ""),
      Node("h1", 1, "", "", "T"),
      Node("p", 1, "", "", "body")>>

MainBlock == <<Node("main", 0, "main", "", "lead")>>

ContentDivBlock ==
    <<Node("div", 0, "", "Main-Content box", ""),
      Node("script", 1, "", "", "track()"),
      Node("p", 1, "", "", "story")>>

ContentSectionBlock == <<Node("section", 0, "", "content", "aside")>>

ArticleDivBlock == <<Node("div", 0, "", "article", "entry")>>

ParagraphBlock == <<Node("p", 0, "", "", "note")>>

Blocks ==
    {HeaderBlock, ArticleBlock, MainBlock, ContentDivBlock,
     ContentSectionBlock, ArticleDivBlock, ParagraphBlock}

\* block b moved d levels down
Shift(b, d) ==
    [i \in DOMAIN b |->
        Node(b[i].tag, b[i].depth + d, b[i].id, b[i].class, b[i].text)]

RECURSIVE Concat(_, _)
\* the blocks of bs, one after the other, at depth d
Concat(bs, d) ==
    IF bs = <<>> THEN <<>> ELSE Shift(Head(bs), d) \o Concat(Tail(bs), d)

Frames == {"bare", "body", "html", "page"}

Page(frame, bs) ==
    CASE frame = "bare" -> Concat(bs, 0)
      [] frame = "body" -> <<Node("body", 0, "", "", "")>> \o Concat(bs, 1)
      [] frame = "html" ->
             <<Node("html", 0, "", "", ""), Node("body", 1, "", "", "")>>
                 \o Concat(bs, 2)
      [] frame = "page" ->
             <<Node("html", 0, "", "", ""), Node("body", 1, "", "", ""),
               Node("nav", 2, "", "", "X")>>
                 \o Concat(bs, 2)
                 \o <<Node("footer", 2, "", "", "Y")>>

Documents ==
    {Page(f, bs) : f \in Frames,
                   bs \in UNION {[1..n -> Blocks] : n \in 0..MaxBlocks}}

\* content_selector of the converter: not given, matching, matching nothing
ContentSelectors == {None, "#main", "#missing"}

PostUrl == "https://www.example.com/post"

ExtractUrls == {PostUrl, "https://other.test/post"}

\* site_rules of the converter
SiteRuleTables ==
    {<<>>, "example.com" :> ".article", "example.com" :> ".absent"}

ExtractInit ==
    /\ Idle
    /\ extraction \in
           {[pc |-> "called", html |-> h, url |-> u, content_selector |-> cs,
             site_rules |-> r, result |-> None] :
                h \in Documents, u \in ExtractUrls,
                cs \in ContentSelectors, r \in SiteRuleTables}
    /\ loading = Off
    /\ rewriting = Off
    /\ enhancing = Off
    /\ splitting = Off

\* content_html = self._extract_content(html, url)
extract_content_Return ==
    /\ extraction.pc = "called"
    /\ extraction' =
           [extraction EXCEPT
               !.pc = "returned",
               !.result = _extract_content(extraction.html, extraction.url,
                                           extraction.content_selector,
                                           extraction.site_rules)]
    /\ UNCHANGED <<vars, loading, rewriting, enhancing, splitting>>

ExtractNext == extract_content_Return

SpecExtract == ExtractInit /\ [][ExtractNext]_<<vars, side>>


-----------------------------------------------------------------------------
(* Properties of the Content Extractor *)

Denylist == {"script", "style", "nav", "footer", "header"}

\* element j of doc is a denylisted element or lies inside one
InsideDenied(doc, j) ==
    \E i \in DOMAIN doc : doc[i].tag \in Denylist /\ Within(doc, i, j)

\* the texts of the page that stand inside denylisted elements
DeniedTexts(doc) ==
    {doc[j].text : j \in {k \in DOMAIN doc : InsideDenied(doc, k)}} \ {""}

\* C11: whatever the selector outcome, the fragment _extract_content
\* returns holds no script, style, nav, footer or header element and none
\* of the content nested inside such elements.
C11_DenylistStripped ==
    extraction.pc = "returned" =>
        /\ \A t \in Denylist : ~ Contains(extraction.result, "<" \o t)
        /\ \A x \in DeniedTexts(extraction.html) :
               ~ Contains(extraction.result, x)

\* the page <html><body><nav>X</nav><article><h1>T</h1><p>body</p></article>
\* <footer>Y</footer></body></html> gives the article without X and Y
C11_Witness ==
    /\ extraction.pc = "returned"
    /\ extraction.html = Page("page", <<ArticleBlock>>)
    /\ extraction.content_selector = None
    /\ extraction.site_rules = <<>>
    /\ extraction.result = "<article><h1>T</h1><p>body</p></article>"


\* the site rule of the URL's domain, None without one: the pages at
\* www.example.com are the ones a rule for example.com is about
RuleFor(e) ==
    IF e.url = PostUrl /\ "example.com" \in DOMAIN e.site_rules
    THEN e.site_rules["example.com"]
    ELSE None

\* the markup of the first element of the stripped page that sel selects
Selected(e, sel) ==
    LET soup == decompose_all(e.html)
    IN  str_element(soup, select_one(soup, sel))

\* sel selects an element of the stripped page
Hits(e, sel) == select_one(decompose_all(e.html), sel) # 0

\* what the auto-detect chain gives on the stripped page
AutoDetected(e) ==
    LET soup == decompose_all(e.html)
    IN  IF auto_detect(soup) # 0
        THEN str_element(soup, auto_detect(soup))
        ELSE str_soup(soup)

\* C12: an explicit selector is the one applied whatever the site rule of
\* the domain says; the site rule is applied when no explicit selector was
\* given; the auto-detect chain is used when there is neither.
C12_SelectorPrecedence ==
    extraction.pc = "returned" =>
        LET e == extraction
        IN  /\ e.content_selector # None =>
                /\ Hits(e, e.content_selector) =>
                       e.result = Selected(e, e.content_selector)
                /\ e.result = _extract_content(e.html, e.url,
                                               e.content_selector, <<>>)
            /\ e.content_selector = None /\ RuleFor(e) # None
                   /\ Hits(e, RuleFor(e)) =>
                       e.result = Selected(e, RuleFor(e))
            /\ e.content_selector = None /\ RuleFor(e) = None =>
                   e.result = AutoDetected(e)

\* explicit #main, rule .article for the domain, a page with both
C12_Witness ==
    /\ extraction.pc = "returned"
    /\ extraction.url = PostUrl
    /\ extraction.content_selector = "#main"
    /\ extraction.site_rules = ("example.com" :> ".article")
    /\ extraction.html = Page("html", <<ArticleDivBlock, MainBlock>>)
    /\ extraction.result = "<main id=\"main\">lead</main>"


\* the selector that was determined, None when there is none
Determined(e) ==
    IF e.content_selector # None THEN e.content_selector ELSE RuleFor(e)

\* a selector was determined and selects nothing of the stripped page
SelectorMissed(e) == Determined(e) # None /\ ~ Hits(e, Determined(e))

HasBody(e) == find(decompose_all(e.html), "body") # 0

\* the markup of the body element of the stripped page
BodyOf(e) ==
    LET soup == decompose_all(e.html)
    IN  str_element(soup, find(soup, "body"))

\* C13, as stated: a determined selector that matches nothing makes the
\* extraction return the body element.
C13_AsStated ==
    extraction.pc = "returned" /\ SelectorMissed(extraction) =>
        HasBody(extraction) /\ extraction.result = BodyOf(extraction)

\* C13, amended: a determined selector that matches nothing makes the
\* extraction return the body element or, on a page without body, the
\* whole stripped document; the auto-detect chain is not consulted.
C13_SelectorMiss ==
    extraction.pc = "returned" /\ SelectorMissed(extraction) =>
        extraction.result =
            IF HasBody(extraction)
            THEN BodyOf(extraction)
            ELSE str_soup(decompose_all(extraction.html))

\* #missing on a page with an article: the body, not the article
C13_Witness ==
    /\ extraction.pc = "returned"
    /\ extraction.content_selector = "#missing"
    /\ extraction.html = Page("page", <<ArticleBlock>>)
    /\ extraction.result
           = "<body><article><h1>T</h1><p>body</p></article></body>"
    /\ extraction.result # AutoDetected(extraction)


\* the elements of soup, of the given tags, whose class attribute contains
\* "content" in any letter case
ContentClassed(soup, tags) ==
    {i \in DOMAIN soup : /\ soup[i].tag \in tags
                         /\ Contains(lower(soup[i].class), "content")}

AllTags == {"html", "body", "article", "main", "div", "section", "h1", "p"}

\* the first candidate of the chain that exists on the stripped page, the
\* content-class candidate being looked for among the given tags
ChainResult(e, tags) ==
    LET soup == decompose_all(e.html)
        pick == Or(find(soup, "article"),
                   Or(find(soup, "main"),
                      Or(First(ContentClassed(soup, tags)),
                         find(soup, "body"))))
    IN  IF pick # 0 THEN str_element(soup, pick) ELSE str_soup(soup)

\* C14, as stated: without selector the result is the first article, else
\* the first main, else the first element of any tag whose class contains
\* "content", else the body, else the whole document.
C14_AsStated ==
    extraction.pc = "returned" /\ Determined(extraction) = None =>
        extraction.result = ChainResult(extraction, AllTags)

\* C14, amended: the third candidate is the first div element whose class
\* contains "content" in any letter case.
C14_AutoDetect ==
    extraction.pc = "returned" /\ Determined(extraction) = None =>
        extraction.result = ChainResult(extraction, {"div"})

\* no article, no main: the div of class "Main-Content box" is returned
C14_Witness ==
    /\ extraction.pc = "returned"
    /\ Determined(extraction) = None
    /\ extraction.html = Page("html", <<ParagraphBlock, ContentDivBlock>>)
    /\ extraction.result
           = "<div class=\"Main-Content box\"><p>story</p></div>"


-----------------------------------------------------------------------------
(* The site rules: URLConverter._load_rules, run by the constructor, and
   URLConverter._get_selector_for_url.

   A rule file is absent, or is no YAML, or is a YAML document without
   "sites", or has a list of sites. A site is a mapping; site["domain"] and
   site["selector"] raise KeyError on a mapping without that key. *)

Site(domain, selector) == [domain |-> domain, selector |-> selector]

Sites ==
    {Site("example.com", ".article"), Site("example.com", ".post"),
     Site("aexample.com", "#a"), Site("awww.example.com", "#w"),
     [domain |-> "example.com"]}

RuleFiles ==
    {[kind |-> k, sites |-> <<>>] : k \in {"absent", "no yaml", "no sites"}}
        \cup {[kind |-> "sites", sites |-> ss] :
                 ss \in UNION {[1..n -> Sites] : n \in 0..MaxEntries}}

LookupUrls ==
    {"https://example.com/a", "https://www.example.com/a",
     "https://awww.example.com/a", "https://example.com:8080/a",
     "https://other.test/a"}

\* URLConverter(rule_file=...) has reached _load_rules:
\* self.site_rules = {}
RulesInit ==
    /\ Idle
    /\ loading \in
           {[pc |-> "load_rules", file |-> f, site_rules |-> <<>>, i |-> 1,
             failed |-> FALSE, url |-> "", selector |-> None] :
                f \in RuleFiles}
    /\ extraction = Off
    /\ rewriting = Off
    /\ enhancing = Off
    /\ splitting = Off

\* if rule_path.exists():
load_rules_Exists ==
    /\ loading.pc = "load_rules"
    /\ loading' =
           [loading EXCEPT
               !.pc = IF loading.file.kind = "absent"
                      THEN "constructed" ELSE "safe_load"]
    /\ UNCHANGED <<vars, extraction, rewriting, enhancing, splitting>>

\* data = yaml.safe_load(f); if data and "sites" in data:
load_rules_SafeLoad ==
    /\ loading.pc = "safe_load"
    /\ loading' =
           [loading EXCEPT
               !.pc = CASE loading.file.kind = "no yaml" -> "except"
                        [] loading.file.kind = "no sites" -> "constructed"
                        [] loading.file.sites = <<>> -> "constructed"
                        [] OTHER -> "for site"]
    /\ UNCHANGED <<vars, extraction, rewriting, enhancing, splitting>>

\* for site in data["sites"]:
\*     self.site_rules[site["domain"]] = site["selector"]
load_rules_Site ==
    /\ loading.pc = "for site"
    /\ LET site == loading.file.sites[loading.i]
       IN  IF {"domain", "selector"} \subseteq DOMAIN site
           THEN loading' =
                    [loading EXCEPT
                        !.site_rules = (site.domain :> site.selector) @@ @,
                        !.i = @ + 1,
                        !.pc = IF loading.i = Len(loading.file.sites)
                               THEN "constructed" ELSE "for site"]
           ELSE loading' = [loading EXCEPT !.pc = "except"]
    /\ UNCHANGED <<vars, extraction, rewriting, enhancing, splitting>>

\* except Exception as e: logger.warning(...)
load_rules_Except ==
    /\ loading.pc = "except"
    /\ loading' = [loading EXCEPT !.pc = "constructed", !.failed = TRUE]
    /\ UNCHANGED <<vars, extraction, rewriting, enhancing, splitting>>

\* self._get_selector_for_url(url) of the constructed converter
get_selector_for_url_Return ==
    /\ loading.pc = "constructed"
    /\ \E u \in LookupUrls :
          loading' =
              [loading EXCEPT
                  !.pc = "looked up",
                  !.url = u,
                  !.selector = _get_selector_for_url(loading.site_rules, u)]
    /\ UNCHANGED <<vars, extraction, rewriting, enhancing, splitting>>

RulesNext ==
    \/ load_rules_Exists
    \/ load_rules_SafeLoad
    \/ load_rules_Site
    \/ load_rules_Except
    \/ get_selector_for_url_Return

SpecRules == RulesInit /\ [][RulesNext]_<<vars, side>>

-----------------------------------------------------------------------------
(* Properties of the site rules *)

\* the host of a URL: its netloc without the port
HostOf(url) ==
    LET n == urlparse_netloc(url)
        colons == {i \in 1..Len(n) : Char(n, i) = ":"}
    IN  IF colons = {} THEN n ELSE Slice(n, 1, Min(colons) - 1)

\* the host with a leading "www." taken off, nothing else changed
StatedKey(url) ==
    IF startswith(HostOf(url), "www.")
    THEN Slice(HostOf(url), 5, Len(HostOf(url)))
    ELSE HostOf(url)

\* C15, as stated: a URL is looked up under its host with only a leading
\* "www." stripped, so the rule of domain D is the one applied exactly
\* when the host is D or www.D.
C15_AsStated ==
    loading.pc = "looked up" =>
        loading.selector = Get(loading.site_rules, StatedKey(loading.url))

\* C16, as stated: after construction the table is empty when the rule
\* file is absent or when any error occurred while loading it.
C16_AsStated ==
    /\ loading.pc \in {"constructed", "looked up"}
    /\ loading.file.kind = "absent" \/ loading.failed
    => loading.site_rules = <<>>


-----------------------------------------------------------------------------
(* The Link Rewriter: URLConverter._fix_relative_urls *)

\* the first position from `from` on where s has one of the characters cs,
\* 0 when there is none
Find(s, cs, from) ==
    LET hits == {i \in from..Len(s) : Char(s, i) \in cs}
    IN  IF hits = {} THEN 0 ELSE Min(hits)

\* s up to the first of the characters cs
Before(s, cs) ==
    IF Find(s, cs, 1) = 0 THEN s ELSE Slice(s, 1, Find(s, cs, 1) - 1)

\* s from the first of the characters cs on, that character included
From(s, cs) ==
    IF Find(s, cs, 1) = 0 THEN "" ELSE Slice(s, Find(s, cs, 1), Len(s))

\* urlsplit(url).scheme, "" without scheme
SchemeOf(url) == lower(Slice(url, 1, SchemeEnd(url) - 1))

\* url without its scheme and the ":" behind it
AfterScheme(url) == Slice(url, SchemeEnd(url) + 1, Len(url))

\* urlsplit(url).path
PathOf(url) ==
    LET rest == AfterScheme(url)
        tail == IF Slice(rest, 1, 2) = "//"
                THEN From(Slice(rest, 3, Len(rest)), {"/", "?", "#"})
                ELSE rest
    IN  Before(tail, {"?", "#"})

\* "?" and the query of url, "" without query
QueryOf(url) == Before(From(Before(AfterScheme(url), {"#"}), {"?"}), {"#"})

\* "#" and the fragment of url, "" without fragment
FragmentOf(url) == From(AfterScheme(url), {"#"})

RECURSIVE DropEmpty(_)
\* filter(None, segments)
DropEmpty(segments) ==
    IF segments = <<>> THEN <<>>
    ELSE (IF Head(segments) = "" THEN <<>> ELSE <<Head(segments)>>)
             \o DropEmpty(Tail(segments))

RECURSIVE ResolveDots(_, _)
\* the loop of urljoin over the segments: ".." pops, "." is skipped
ResolveDots(segments, resolved) ==
    IF segments = <<>> THEN resolved
    ELSE LET seg == Head(segments)
         IN  ResolveDots(Tail(segments),
                 CASE seg = ".." ->
                          SubSeq(resolved, 1, Max({Len(resolved) - 1, 0}))
                   [] seg = "." -> resolved
                   [] OTHER -> Append(resolved, seg))

\* the path urljoin gives a reference with the non-empty path `path`
JoinedPath(bpath, path) ==
    LET parts == split(bpath, "/")
        base_parts == IF parts[Len(parts)] # ""
                      THEN SubSeq(parts, 1, Len(parts) - 1) ELSE parts
        all == IF startswith(path, "/") THEN split(path, "/")
               ELSE base_parts \o split(path, "/")
        segments == IF Len(all) <= 2 THEN all
                    ELSE <<all[1]>>
                             \o DropEmpty(SubSeq(all, 2, Len(all) - 1))
                             \o <<all[Len(all)]>>
        resolved == ResolveDots(segments, <<>>)
                        \o (IF segments[Len(segments)] \in {".", ".."}
                            THEN <<"">> ELSE <<>>)
        joined == join("/", resolved)
    IN  IF joined = "" THEN "/"
        ELSE IF startswith(joined, "/") THEN joined
        ELSE "/" \o joined

urljoin_concat(base, url) == base \o url

\* urllib.parse.urljoin(base, url) for an http or https base
urljoin(base, url) ==
    LET rest == AfterScheme(url)
        origin == SchemeOf(base) \o "://" \o urlparse_netloc(base)
    IN  IF url = "" THEN base
        ELSE IF SchemeOf(url) \notin {"", SchemeOf(base)} THEN url
        ELSE IF startswith(rest, "//") THEN SchemeOf(base) \o ":" \o rest
        ELSE IF PathOf(url) = ""
             THEN origin \o PathOf(base)
                      \o (IF QueryOf(url) # "" THEN QueryOf(url)
                          ELSE QueryOf(base))
                      \o FragmentOf(url)
        ELSE origin \o JoinedPath(PathOf(base), PathOf(url))
                 \o QueryOf(url) \o FragmentOf(url)


\* the targets replace_image leaves alone
IMAGE_EXEMPT == {"http://", "https://", "//", "data:"}

\* the targets replace_link leaves alone
LINK_EXEMPT == {"http://", "https://", "//", "#", "mailto:"}

\* url.startswith((p1, p2, ...))
startswith_any(s, prefixes) == \E q \in prefixes : startswith(s, q)

\* The match of !\[([^\]]*)\]\(([^)]+)\) (kind "image") or of
\* \[([^\]]+)\]\(([^)]+)\) (kind "link") that starts at position i of s:
\* the first group runs to the first "]", the second to the first ")".
MatchAt(s, i, kind) ==
    LET open == IF kind = "image" THEN i + 1 ELSE i
        close == Find(s, {"]"}, open + 1)
        paren == Find(s, {")"}, close + 2)
    IN  IF /\ kind = "image" => Char(s, i) = "!"
           /\ Char(s, open) = "["
           /\ close # 0
           /\ kind = "link" => close > open + 1
           /\ Char(s, close + 1) = "("
           /\ paren > close + 2
        THEN [ok |-> TRUE,
              text |-> Slice(s, open + 1, close - 1),
              url |-> Slice(s, close + 2, paren - 1),
              end |-> paren]
        ELSE [ok |-> FALSE, text |-> "", url |-> "", end |-> 0]

\* replace_image / replace_link: is the target handed to urljoin?
Resolves(kind, url) ==
    ~ startswith_any(url, IF kind = "image" THEN IMAGE_EXEMPT
                          ELSE LINK_EXEMPT)

\* f"![{alt}]({url})" / f"[{text}]({url})"
Construct(kind, text, url) ==
    (IF kind = "image" THEN "!" ELSE "") \o "[" \o text \o "](" \o url \o ")"

RECURSIVE re_sub(_, _, _, _, _)
\* re.sub(pattern, replace, s) from position i on: the matches are taken
\* left to right and do not overlap; where none starts, the text is copied
\* up to the next place where one can start. acc gathers the text written
\* so far, the matches made and the targets handed to urljoin.
re_sub(s, i, kind, base_url, acc) ==
    IF i > Len(s) THEN acc
    ELSE IF MatchAt(s, i, kind).ok
    THEN LET m == MatchAt(s, i, kind)
             url == IF Resolves(kind, m.url)
                    THEN urljoin(base_url, m.url) ELSE m.url
         IN  re_sub(s, m.end + 1, kind, base_url,
                    [out |-> acc.out \o Construct(kind, m.text, url),
                     matched |-> acc.matched
                                     \cup {[text |-> m.text, url |-> m.url]},
                     joined |-> acc.joined
                                    \cup (IF Resolves(kind, m.url)
                                          THEN {m.url} ELSE {})])
    ELSE LET next == Find(s, {IF kind = "image" THEN "!" ELSE "["}, i + 1)
             j == IF next = 0 THEN Len(s) + 1 ELSE next
         IN  re_sub(s, j, kind, base_url,
                    [acc EXCEPT !.out = @ \o Slice(s, i, j - 1)])

NoMatches == [out |-> "", matched |-> {}, joined |-> {}]

\* markdown = re.sub(r'!\[([^\]]*)\]\(([^)]+)\)', replace_image, markdown)
fix_images(md, base_url) == re_sub(md, 1, "image", base_url, NoMatches)

\* markdown = re.sub(r'\[([^\]]+)\]\(([^)]+)\)', replace_link, markdown)
fix_links(md, base_url) == re_sub(md, 1, "link", base_url, NoMatches)

\* URLConverter._fix_relative_urls(markdown, base_url)
_fix_relative_urls(md, base_url) ==
    fix_links(fix_images(md, base_url).out, base_url).out

(* Markdown texts: at most MaxItems items with a space between them *)

Text(t) == [kind |-> "text", text |-> t, url |-> "", link |-> ""]

Image(alt, url) == [kind |-> "image", text |-> alt, url |-> url, link |-> ""]

Link(text, url) == [kind |-> "link", text |-> text, url |-> url, link |-> ""]

\* an image that is the text of a link: [![alt](url)](link)
LinkedImage(alt, url, link) ==
    [kind |-> "linked image", text |-> alt, url |-> url, link |-> link]

Items ==
    {Text("See"),
     Link("x", "../img.png"), Link("home", "/"), Link("top", "#top"),
     Link("mail", "mailto:a@b.c"), Link("abs", "https://x.test/y"),
     Link("cdn", "//cdn.test/x"), Link("", "../page"),
     Image("alt", "img.png"), Image("", "pic/a.png"),
     Image("logo", "data:image/png;base64,AA"),
     Image("ext", "http://x.test/i.png"),
     LinkedImage("fig", "fig.png", "../large")}

\* the Markdown of an item, its targets being img and href
ItemMarkdown(item, img, href) ==
    CASE item.kind = "text" -> item.text
      [] item.kind = "image" -> Construct("image", item.text, img)
      [] item.kind = "link" -> Construct("link", item.text, href)
      [] item.kind = "linked image" ->
             Construct("link", Construct("image", item.text, img), href)

RECURSIVE Markdown(_)
Markdown(items) ==
    IF items = <<>> THEN ""
    ELSE ItemMarkdown(Head(items), Head(items).url,
                      IF Head(items).kind = "link" THEN Head(items).url
                      ELSE Head(items).link)
             \o (IF Len(items) > 1 THEN " " ELSE "")
             \o Markdown(Tail(items))

BaseUrls == {"https://site.test/blog/post", "https://site.test/"}

\* self._fix_relative_urls(markdown, url) has been called
RewriteInit ==
    /\ Idle
    /\ rewriting \in
           {[pc |-> "images", items |-> items, markdown |-> Markdown(items),
             base_url |-> b, images |-> NoMatches, links |-> NoMatches,
             result |-> None] :
                b \in BaseUrls,
                items \in UNION {[1..n -> Items] : n \in 1..MaxItems}}
    /\ extraction = Off
    /\ loading = Off
    /\ enhancing = Off
    /\ splitting = Off

\* the image substitution
fix_relative_urls_Images ==
    /\ rewriting.pc = "images"
    /\ rewriting' =
           [rewriting EXCEPT
               !.pc = "links",
               !.images = fix_images(rewriting.markdown, rewriting.base_url)]
    /\ UNCHANGED <<vars, extraction, loading, enhancing, splitting>>

\* the link substitution, and return markdown
fix_relative_urls_Links ==
    /\ rewriting.pc = "links"
    /\ LET r == fix_links(rewriting.images.out, rewriting.base_url)
       IN  rewriting' =
               [rewriting EXCEPT
                   !.pc = "returned", !.links = r, !.result = r.out]
    /\ UNCHANGED <<vars, extraction, loading, enhancing, splitting>>

RewriteNext ==
    \/ fix_relative_urls_Images
    \/ fix_relative_urls_Links

SpecRewrite == RewriteInit /\ [][RewriteNext]_<<vars, side>>


-----------------------------------------------------------------------------
(* Properties of the Link Rewriter *)

\* the target the stated rule gives: unchanged when exempt, else resolved
StatedTarget(kind, url, base_url) ==
    IF startswith_any(url,
           IF kind = "image" THEN {"http://", "https://", "//", "data:"}
           ELSE {"http://", "https://", "//", "#", "mailto:"})
    THEN url
    ELSE urljoin(base_url, url)

RECURSIVE Rewritten(_, _)
\* the Markdown of items with every image and link target rewritten
Rewritten(items, base_url) ==
    IF items = <<>> THEN ""
    ELSE LET item == Head(items)
         IN  ItemMarkdown(item,
                          StatedTarget("image", item.url, base_url),
                          StatedTarget("link",
                                       IF item.kind = "link" THEN item.url
                                       ELSE item.link,
                                       base_url))
                 \o (IF Len(items) > 1 THEN " " ELSE "")
                 \o Rewritten(Tail(items), base_url)

\* C17, as stated: every image reference and every link reference has its
\* target left alone when exempt and resolved against the base URL when
\* not; the text outside the targets is unchanged.
C17_AsStated ==
    rewriting.pc = "returned" =>
        rewriting.result = Rewritten(rewriting.items, rewriting.base_url)

\* the images of the text: the images and the images inside links
ImagesOf(items) ==
    {items[i] : i \in {j \in DOMAIN items :
                          items[j].kind \in {"image", "linked image"}}}

\* the construct the image rule makes of an image
ImageRuled(item, base_url) ==
    Construct("image", item.text,
              StatedTarget("image", item.url, base_url))

-----------------------------------------------------------------------------
(* The chunker: LLMEnhancer._split_content *)

\* the default of max_chunk_size
DEFAULT_MAX_CHUNK_SIZE == 3000

para_size_unpadded(para) == Len(para)

\* para_size = len(para) + 2  (+2 for \n\n)
para_size(para) == Len(para) + 2

\* chunks = []; current_chunk = []; current_size = 0
NoChunks == [chunks |-> <<>>, current_chunk |-> <<>>, current_size |-> 0]

\* one pass of the loop body, for the paragraph para
split_step(st, para, max_chunk_size) ==
    IF /\ st.current_size + para_size(para) > max_chunk_size
       /\ st.current_chunk # <<>>
    THEN [chunks |-> Append(st.chunks, join("\n\n", st.current_chunk)),
          current_chunk |-> <<para>>,
          current_size |-> para_size(para)]
    ELSE [chunks |-> st.chunks,
          current_chunk |-> Append(st.current_chunk, para),
          current_size |-> st.current_size + para_size(para)]

\* return chunks, without the paragraphs still held in current_chunk
split_flush_dropping_last(st) == st.chunks

\* if current_chunk: chunks.append("\n\n".join(current_chunk))
\* return chunks
split_flush(st) ==
    IF st.current_chunk # <<>>
    THEN Append(st.chunks, join("\n\n", st.current_chunk))
    ELSE st.chunks

RECURSIVE split_loop(_, _, _)
\* for para in paragraphs: ...
split_loop(paragraphs, st, max_chunk_size) ==
    IF paragraphs = <<>> THEN st
    ELSE split_loop(Tail(paragraphs),
                    split_step(st, Head(paragraphs), max_chunk_size),
                    max_chunk_size)

\* LLMEnhancer._split_content(content, max_chunk_size)
_split_content(content, max_chunk_size) ==
    split_flush(split_loop(split(content, "\n\n"), NoChunks, max_chunk_size))

\* paragraphs of the generated contents: none ends with a newline, one
\* begins with a newline (three newlines in a row in the content)
Paragraphs == {"", "a", "lorem", "two\nlines", "\nb"}

ParagraphLists == UNION {[1..n -> Paragraphs] : n \in 1..MaxParas}

MaxChunkSizes == {0, 7, 9, 14, DEFAULT_MAX_CHUNK_SIZE}

\* self._split_content(content, max_chunk_size) has been called
SplitInit ==
    /\ Idle
    /\ splitting \in
           {[pc |-> "split", paras |-> ps, content |-> join("\n\n", ps),
             max_chunk_size |-> m, paragraphs |-> <<>>, st |-> NoChunks,
             chunks |-> <<>>] :
                ps \in ParagraphLists, m \in MaxChunkSizes}
    /\ extraction = Off
    /\ loading = Off
    /\ rewriting = Off
    /\ enhancing = Off

\* paragraphs = content.split("\n\n")
split_content_Split ==
    /\ splitting.pc = "split"
    /\ splitting' =
           [splitting EXCEPT
               !.pc = "for para",
               !.paragraphs = split(splitting.content, "\n\n")]
    /\ UNCHANGED <<vars, extraction, loading, rewriting, enhancing>>

\* the loop body for the next paragraph
split_content_Para ==
    /\ splitting.pc = "for para"
    /\ splitting.paragraphs # <<>>
    /\ splitting' =
           [splitting EXCEPT
               !.paragraphs = Tail(@),
               !.st = split_step(@, Head(splitting.paragraphs),
                                 splitting.max_chunk_size)]
    /\ UNCHANGED <<vars, extraction, loading, rewriting, enhancing>>

\* the loop is over: the last chunk is added, chunks is returned
split_content_Return ==
    /\ splitting.pc = "for para"
    /\ splitting.paragraphs = <<>>
    /\ splitting' =
           [splitting EXCEPT
               !.pc = "returned", !.chunks = split_flush(splitting.st)]
    /\ UNCHANGED <<vars, extraction, loading, rewriting, enhancing>>

SplitNext ==
    \/ split_content_Split
    \/ split_content_Para
    \/ split_content_Return

SpecSplit == SplitInit /\ [][SplitNext]_<<vars, side>>

-----------------------------------------------------------------------------
(* Properties of the chunker *)

RECURSIVE Regroups(_, _, _)
\* chunks are the paragraphs paras, in order, each chunk being one or more
\* whole consecutive paragraphs with a blank line between them, and no
\* chunk of several paragraphs being longer than max
Regroups(chunks, paras, max) ==
    IF chunks = <<>> THEN paras = <<>>
    ELSE \E n \in 1..Len(paras) :
            /\ Head(chunks) = join("\n\n", SubSeq(paras, 1, n))
            /\ Len(Head(chunks)) <= max \/ n = 1
            /\ Regroups(Tail(chunks), SubSeq(paras, n + 1, Len(paras)), max)

\* C20: every chunk of _split_content is made of whole consecutive
\* paragraphs, the paragraphs keep their order across the chunks, and a
\* chunk is longer than max_chunk_size only when it is a single paragraph.
C20_ParagraphChunks ==
    splitting.pc = "returned" =>
        /\ Regroups(splitting.chunks, splitting.paras,
                    splitting.max_chunk_size)
        /\ splitting.chunks
               = _split_content(splitting.content, splitting.max_chunk_size)

\* three paragraphs, max 7: "a" and "" share a chunk, "two\nlines" alone
\* exceeds the size
C20_Witness ==
    /\ splitting.pc = "returned"
    /\ splitting.paras = <<"a", "", "two\nlines">>
    /\ splitting.max_chunk_size = 7
    /\ splitting.chunks = <<"a\n\n", "two\nlines">>

\* C25: chunking is lossless: _split_content returns at least one chunk,
\* and the chunks joined with a blank line are the content it was given,
\* character for character.
C25_LosslessChunking ==
    splitting.pc = "returned" =>
        /\ splitting.chunks # <<>>
        /\ join("\n\n", splitting.chunks) = splitting.content

\* a content with three newlines in a row, cut into two chunks between the
\* first and the second paragraph
C25_Witness ==
    /\ splitting.pc = "returned"
    /\ splitting.content = "lorem\n\n\nb\n\na"
    /\ splitting.max_chunk_size = 9
    /\ splitting.chunks = <<"lorem", "\nb\n\na">>
    /\ join("\n\n", splitting.chunks) = splitting.content


-----------------------------------------------------------------------------
(* The enhancement pass: LLMEnhancer.enhance and _enhance_chunk.

   A remote call is one call of client.chat.completions.create: it is in
   flight from the moment _enhance_chunk makes it until it returns a
   response or raises. *)

\* if len(content) > 3000
THRESHOLD == 3000

needs_split_from_threshold(content) == Len(content) >= THRESHOLD

needs_split(content) == Len(content) > THRESHOLD

\* the code fence of Markdown, three backquotes in the source: a string of
\* this module cannot hold a backquote
FENCE == "~~~"

\* response.choices[0].message.content.strip()
\*     .split(FENCE + "</enhanced_content>")[0]
\*     .replace(FENCE + "markdown\n", "").strip()
enhanced_content(raw) ==
    strip(replace(split(strip(raw), FENCE \o "</enhanced_content>")[1],
                  FENCE \o "markdown\n", ""))

RECURSIVE Rep(_, _)
\* the string s written n times
Rep(s, n) ==
    IF n = 0 THEN ""
    ELSE IF n % 2 = 1 THEN s \o Rep(s, n - 1)
    ELSE Rep(s \o s, n \div 2)

\* paragraphs of the contents to enhance: two of them with a blank line
\* between them can be 2802, 3000 or 3198 characters long
LongParagraphs ==
    {"intro", Rep("a", 1400), Rep("b", 1598), Rep("c", 3001)}

\* the contents to enhance, as lists of paragraphs
Contents == UNION {[1..n -> LongParagraphs] : n \in 1..MaxParas}

\* what the model answers
RawAnswers ==
    {"better",
     " " \o FENCE \o "markdown\n# T\n\nx\n" \o FENCE
         \o "</enhanced_content>\n"}

\* str(e) of what create(...) raises
CallFailures == {"APIConnectionError", "API Error"}

failure_message_bare(e) == e

\* f"LLM enhancement failed: {str(e)}"
failure_message(e) == "LLM enhancement failed: " \o e

\* enhancer.enhance(content) has been called
EnhanceInit ==
    /\ Idle
    /\ enhancing \in
           {[pc |-> "Idle", paras |-> ps, content |-> join("\n\n", ps),
             chunks |-> <<>>, calls |-> <<>>, returned |-> 0,
             enhanced_chunks |-> <<>>, result |-> None, outcome |-> "none",
             exc |-> None, msg |-> None, cause |-> None,
             trace |-> <<"Idle">>] : ps \in Contents}
    /\ extraction = Off
    /\ loading = Off
    /\ rewriting = Off
    /\ splitting = Off

\* if len(content) > 3000: ... else: result = self._enhance_chunk(content, ...)
\* up to the call of create
enhance_Begin ==
    /\ enhancing.pc = "Idle"
    /\ IF needs_split(enhancing.content)
       THEN enhancing' =
                [enhancing EXCEPT
                    !.pc = "Chunking", !.trace = Append(@, "Chunking")]
       ELSE enhancing' =
                [enhancing EXCEPT
                    !.pc = "SingleCallInFlight",
                    !.calls = <<enhancing.content>>,
                    !.trace = Append(@, "SingleCallInFlight")]
    /\ UNCHANGED <<vars, extraction, loading, rewriting, splitting>>

\* chunks = self._split_content(content), and the loop up to the call of
\* create for the first chunk
enhance_Split ==
    /\ enhancing.pc = "Chunking"
    /\ LET chunks == _split_content(enhancing.content,
                                    DEFAULT_MAX_CHUNK_SIZE)
       IN  IF chunks = <<>>
           THEN enhancing' =
                    [enhancing EXCEPT
                        !.pc = "Reassembling",
                        !.trace = Append(@, "Reassembling")]
           ELSE enhancing' =
                    [enhancing EXCEPT
                        !.pc = "PerChunkCallInFlight",
                        !.chunks = chunks,
                        !.calls = <<chunks[1]>>,
                        !.trace = Append(@, "PerChunkCallInFlight")]
    /\ UNCHANGED <<vars, extraction, loading, rewriting, splitting>>

\* the call for the whole content returns: return result
enhance_SingleReturn ==
    /\ enhancing.pc = "SingleCallInFlight"
    /\ \E raw \in RawAnswers :
          enhancing' =
              [enhancing EXCEPT
                  !.pc = "Done",
                  !.returned = @ + 1,
                  !.enhanced_chunks = <<enhanced_content(raw)>>,
                  !.result = enhanced_content(raw),
                  !.outcome = "return",
                  !.trace = Append(@, "Done")]
    /\ UNCHANGED <<vars, extraction, loading, rewriting, splitting>>

\* the call for a chunk returns: enhanced_chunks.append(enhanced_chunk),
\* then the call of create for the next chunk, or the end of the loop
enhance_ChunkReturn ==
    /\ enhancing.pc = "PerChunkCallInFlight"
    /\ \E raw \in RawAnswers :
          LET k == Len(enhancing.calls)
          IN  IF k < Len(enhancing.chunks)
              THEN enhancing' =
                       [enhancing EXCEPT
                           !.returned = @ + 1,
                           !.enhanced_chunks =
                               Append(@, enhanced_content(raw)),
                           !.calls = Append(@, enhancing.chunks[k + 1]),
                           !.trace = Append(@, "PerChunkCallInFlight")]
              ELSE enhancing' =
                       [enhancing EXCEPT
                           !.pc = "Reassembling",
                           !.returned = @ + 1,
                           !.enhanced_chunks =
                               Append(@, enhanced_content(raw)),
                           !.trace = Append(@, "Reassembling")]
    /\ UNCHANGED <<vars, extraction, loading, rewriting, splitting>>

\* result = "\n\n".join(enhanced_chunks); return result
enhance_Join ==
    /\ enhancing.pc = "Reassembling"
    /\ enhancing' =
           [enhancing EXCEPT
               !.pc = "Done",
               !.result = join("\n\n", enhancing.enhanced_chunks),
               !.outcome = "return",
               !.trace = Append(@, "Done")]
    /\ UNCHANGED <<vars, extraction, loading, rewriting, splitting>>

\* the call in flight raises:
\* raise Exception(f"LLM enhancement failed: {str(e)}") from e
enhance_Raise ==
    /\ enhancing.pc \in {"SingleCallInFlight", "PerChunkCallInFlight"}
    /\ \E e \in CallFailures :
          enhancing' =
              [enhancing EXCEPT
                  !.pc = "Done",
                  !.returned = @ + 1,
                  !.outcome = "raise",
                  !.exc = "Exception",
                  !.msg = failure_message(e),
                  !.cause = e,
                  !.trace = Append(@, "Done")]
    /\ UNCHANGED <<vars, extraction, loading, rewriting, splitting>>

EnhanceNext ==
    \/ enhance_Begin
    \/ enhance_Split
    \/ enhance_SingleReturn
    \/ enhance_ChunkReturn
    \/ enhance_Join
    \/ enhance_Raise

SpecEnhance == EnhanceInit /\ [][EnhanceNext]_<<vars, side>>


-----------------------------------------------------------------------------
(* Properties of the enhancement pass *)

\* the chunks of the content of the pass: its paragraphs, gathered while
\* the lengths and the blank lines between them stay within 3000
ChunksOf(e) == split_flush(split_loop(e.paras, NoChunks, 3000))

\* the states a pass over n chunks goes through when every call returns
ChunkedPath(n) ==
    <<"Idle", "Chunking">> \o [k \in 1..n |-> "PerChunkCallInFlight"]
        \o <<"Reassembling", "Done">>

\* C19: a content of at most 3000 characters goes Idle, SingleCallInFlight,
\* Done with one remote call that carries the whole content; a longer one
\* goes Idle, Chunking, PerChunkCallInFlight (once per chunk), Reassembling,
\* Done with one remote call per chunk, in chunk order, a call starting only
\* after the one before it has returned, and the result is the per-chunk
\* results joined with "\n\n" in that order.
C19_EnhanceStateMachine ==
    LET e == enhancing
        long == Len(e.content) > 3000
    IN  e.pc # "off" =>
            /\ Len(e.calls) - e.returned
                   = IF e.pc \in {"SingleCallInFlight", "PerChunkCallInFlight"}
                     THEN 1 ELSE 0
            /\ ~ long => e.calls \in {<<>>, <<e.content>>}
            /\ long =>
                   /\ Len(e.calls) <= Len(ChunksOf(e))
                   /\ e.calls = SubSeq(ChunksOf(e), 1, Len(e.calls))
            /\ e.pc = "Done" /\ e.outcome = "return" =>
                   IF long
                   THEN /\ e.trace = ChunkedPath(Len(ChunksOf(e)))
                        /\ e.calls = ChunksOf(e)
                        /\ Len(e.enhanced_chunks) = Len(e.calls)
                        /\ e.result = join("\n\n", e.enhanced_chunks)
                   ELSE /\ e.trace = <<"Idle", "SingleCallInFlight", "Done">>
                        /\ e.calls = <<e.content>>
                        /\ e.result = e.enhanced_chunks[1]

\* a content of 3007 characters in three paragraphs: two chunks, two calls
\* one after the other, two answers joined
C19_Witness ==
    /\ enhancing.pc = "Done"
    /\ enhancing.outcome = "return"
    /\ Len(enhancing.content) = 3007
    /\ enhancing.calls
           = <<Rep("a", 1400), Rep("b", 1598) \o "\n\nintro">>
    /\ enhancing.trace = ChunkedPath(2)
    /\ enhancing.result = "better\n\n# T\n\nx"


\* C21: when a remote call of an enhancement fails, the enhance call ends
\* with one Exception whose message begins "LLM enhancement failed" and
\* whose cause is the failure of the call; the failing call is the last
\* call made, every call was made once, and no content is returned.
C21_FailureAborts ==
    LET e == enhancing
    IN  e.pc # "off" /\ e.outcome = "raise" =>
            /\ e.pc = "Done"
            /\ e.exc = "Exception"
            /\ startswith(e.msg, "LLM enhancement failed")
            /\ e.cause \in CallFailures
            /\ e.msg = "LLM enhancement failed: " \o e.cause
            /\ e.result = None
            /\ e.returned = Len(e.calls)
            /\ Len(e.enhanced_chunks) = Len(e.calls) - 1
            /\ e.calls =
                   IF Len(e.content) > 3000
                   THEN SubSeq(ChunksOf(e), 1, Len(e.calls))
                   ELSE <<e.content>>

\* the call for chunk 2 of 3 fails: chunk 1 was enhanced, chunk 3 is never
\* sent, nothing is returned
C21_Witness ==
    /\ enhancing.pc = "Done"
    /\ enhancing.outcome = "raise"
    /\ Len(ChunksOf(enhancing)) = 3
    /\ Len(enhancing.calls) = 2
    /\ enhancing.enhanced_chunks = <<"better">>
    /\ enhancing.msg = "LLM enhancement failed: API Error"
    /\ enhancing.result = None


-----------------------------------------------------------------------------
(* Properties of the failures that reach the caller of tomd *)

\* the kinds of the conversion-stage failures: not found, not a file and
\* unsupported format, network error
ConversionFailureKinds ==
    {"FileNotFoundError", "ValueError", "RequestException", "HTTPError"}

\* C22, as stated: a failure of the enhancement step that reaches the
\* caller of tomd has a kind that no conversion-stage failure has.
C22_AsStated ==
    pc = "done" /\ outcome = "raise" /\ InLog("enhance_markdown") =>
        exc \notin ConversionFailureKinds


-----------------------------------------------------------------------------
(* enhance_markdown and the construction of the enhancer: LLMEnhancer.__init__.

   The environment is what os.getenv sees once load_dotenv has run: a
   variable is None when it is not set. *)

\* int(s) succeeds: s is a run of digits
IsInt(s) == s # "" /\ \A i \in 1..Len(s) : IsDigit(Char(s, i))

\* os.getenv(name, default)
getenv(value, default) == IF value = None THEN default ELSE value

credential_missing_never(api_key) == FALSE

\* if not self.api_key
credential_missing(api_key) == ~ Truthy(api_key)

\* OPENAI_API_KEY
ApiKeys == {None, "", "sk-test"}

\* LLM_MAX_TOKENS
MaxTokenSettings == {None, "4096", "abc"}

\* contents of one call and of two chunk calls
MarkdownContents ==
    {<<"Original content">>, <<Rep("a", 1400), Rep("b", 1598), "intro">>}

\* enhance_markdown(content, language, enabled) has been called
EnhanceMarkdownInit ==
    /\ Idle
    /\ enhancing \in
           {[pc |-> "enhance_markdown", enabled |-> en, language |-> lang,
             api_key |-> key, max_tokens |-> mt, enhancer |-> "none",
             client |-> FALSE,
             paras |-> ps, content |-> join("\n\n", ps),
             chunks |-> <<>>, calls |-> <<>>, returned |-> 0,
             enhanced_chunks |-> <<>>, result |-> None, outcome |-> "none",
             exc |-> None, msg |-> None, cause |-> None,
             trace |-> <<"Idle">>] :
                en \in BOOLEAN, lang \in {None, "Chinese"},
                key \in ApiKeys, mt \in MaxTokenSettings,
                ps \in MarkdownContents}
    /\ extraction = Off
    /\ loading = Off
    /\ rewriting = Off
    /\ splitting = Off

\* if not enabled: return content
\* enhancer = LLMEnhancer()
enhance_markdown_Enabled ==
    /\ enhancing.pc = "enhance_markdown"
    /\ IF ~ enhancing.enabled
       THEN enhancing' =
                [enhancing EXCEPT
                    !.pc = "Done",
                    !.result = enhancing.content,
                    !.outcome = "return"]
       ELSE enhancing' =
                [enhancing EXCEPT
                    !.pc = "__init__", !.enhancer = "constructing"]
    /\ UNCHANGED <<vars, extraction, loading, rewriting, splitting>>

\* self.api_base = ...; self.api_key = ...; self.model = ...
\* self.max_tokens = int(os.getenv("LLM_MAX_TOKENS", "8192"))
LLMEnhancer_init_Getenv ==
    /\ enhancing.pc = "__init__"
    /\ IF IsInt(getenv(enhancing.max_tokens, "8192"))
       THEN enhancing' = [enhancing EXCEPT !.pc = "if not api_key"]
       ELSE enhancing' =
                [enhancing EXCEPT
                    !.pc = "Done",
                    !.outcome = "raise",
                    !.exc = "ValueError",
                    !.msg = "invalid literal for int() with base 10: '"
                                \o enhancing.max_tokens \o "'"]
    /\ UNCHANGED <<vars, extraction, loading, rewriting, splitting>>

\* if not self.api_key: raise ValueError(...)
\* self.client = OpenAI(api_key=self.api_key, base_url=self.api_base)
\* and, back in enhance_markdown, enhancer.enhance(content, language)
LLMEnhancer_init_CheckKey ==
    /\ enhancing.pc = "if not api_key"
    /\ IF credential_missing(enhancing.api_key)
       THEN enhancing' =
                [enhancing EXCEPT
                    !.pc = "Done",
                    !.outcome = "raise",
                    !.exc = "ValueError",
                    !.msg = "OPENAI_API_KEY not found in environment "
                                \o "variables. Please set it in your .env "
                                \o "file or environment."]
       ELSE enhancing' =
                [enhancing EXCEPT
                    !.pc = "Idle",
                    !.enhancer = "constructed",
                    !.client = TRUE]
    /\ UNCHANGED <<vars, extraction, loading, rewriting, splitting>>

EnhanceMarkdownNext ==
    \/ enhance_markdown_Enabled
    \/ LLMEnhancer_init_Getenv
    \/ LLMEnhancer_init_CheckKey
    \/ enhance_Begin
    \/ enhance_Split
    \/ enhance_SingleReturn
    \/ enhance_ChunkReturn
    \/ enhance_Join
    \/ enhance_Raise

SpecEnhanceMarkdown ==
    EnhanceMarkdownInit /\ [][EnhanceMarkdownNext]_<<vars, side>>

-----------------------------------------------------------------------------
(* Properties of the construction of the enhancer *)

\* enhance_markdown has returned or raised
MarkdownDone(e) == e.pc = "Done" /\ "enabled" \in DOMAIN e

\* no credential is configured
NoCredential(e) == e.api_key \in {None, ""}

\* disabled: the input comes back, no enhancer was constructed
DisabledPassThrough(e) ==
    ~ e.enabled =>
        /\ e.outcome = "return"
        /\ e.result = e.content
        /\ e.enhancer = "none"
        /\ ~ e.client
        /\ e.calls = <<>>

\* C23, as stated: without credential the construction fails with the
\* ValueError "OPENAI_API_KEY not found", before a client exists and before
\* any remote call; a disabled enhance_markdown returns its input and
\* constructs no enhancer.
C23_AsStated ==
    MarkdownDone(enhancing) =>
        /\ enhancing.enabled /\ NoCredential(enhancing) =>
               /\ enhancing.outcome = "raise"
               /\ enhancing.exc = "ValueError"
               /\ startswith(enhancing.msg, "OPENAI_API_KEY not found")
               /\ ~ enhancing.client
               /\ enhancing.calls = <<>>
        /\ DisabledPassThrough(enhancing)

\* C23, amended: without credential the construction fails with a
\* ValueError before a client exists and before any remote call; its
\* message is "OPENAI_API_KEY not found ..." unless LLM_MAX_TOKENS is set to
\* something int() refuses, which fails first.
C23_ConstructionFails ==
    MarkdownDone(enhancing) =>
        /\ enhancing.enabled /\ NoCredential(enhancing) =>
               /\ enhancing.outcome = "raise"
               /\ enhancing.exc = "ValueError"
               /\ enhancing.enhancer = "constructing"
               /\ ~ enhancing.client
               /\ enhancing.calls = <<>>
               /\ IF enhancing.max_tokens \in {None, "4096"}
                  THEN startswith(enhancing.msg, "OPENAI_API_KEY not found")
                  ELSE startswith(enhancing.msg, "invalid literal for int()")
        /\ DisabledPassThrough(enhancing)

\* no OPENAI_API_KEY: the construction has raised, nothing else happened
C23_Witness ==
    /\ MarkdownDone(enhancing)
    /\ enhancing.enabled
    /\ enhancing.api_key = None
    /\ enhancing.max_tokens = None
    /\ enhancing.exc = "ValueError"
    /\ startswith(enhancing.msg, "OPENAI_API_KEY not found")
    /\ ~ enhancing.client
    /\ enhancing.calls = <<>>


-----------------------------------------------------------------------------
(* One remote call and its post-processing: LLMEnhancer._enhance_chunk *)

\* the opening fence the prompt ends with
OPENING == FENCE \o "markdown\n"

\* the closing delimiter the system prompt asks for
CLOSING == FENCE \o "</enhanced_content>"

\* user_prompt
user_prompt(chunk, language) ==
    (IF Truthy(language)
     THEN "Please enhance and translate the following markdown content to "
              \o language \o ". "
              \o "Preserve all markdown formatting and structure. "
              \o "Make the content clear and professional.\n\n"
     ELSE "Please enhance the following markdown content. "
              \o "Preserve all markdown formatting and structure. "
              \o "Make the content more clear, concise, and well-organized.\n\n")
        \o chunk \o "<enhanced_content>" \o OPENING

\* what the model writes between the fences: plain text, text that ends
\* with a newline, text with a Markdown code fence of its own
Bodies ==
    {"", "Enhanced content", "# T\n\nx\n",
     "intro\n" \o FENCE \o "markdown\ncode\n" \o FENCE \o "\n"}

\* response.choices[0].message.content: a body, with or without the
\* opening fence, the closing delimiter and text around them
RawResponses ==
    {lead \o open \o body \o close \o trail :
        lead \in {"", " \n"}, open \in {"", OPENING}, body \in Bodies,
        close \in {"", CLOSING}, trail \in {"", "\n", "\nDone."}}

\* self._enhance_chunk(chunk, language, system_prompt) has been called
EnhanceChunkInit ==
    /\ Idle
    /\ enhancing \in
           {[pc |-> "_enhance_chunk", chunk |-> "# Doc", language |-> lang,
             user_prompt |-> None, raw |-> None, result |-> None,
             outcome |-> "none", exc |-> None] :
                lang \in {None, "Chinese"}}
    /\ extraction = Off
    /\ loading = Off
    /\ rewriting = Off
    /\ splitting = Off

\* user_prompt = ...; response = self.client.chat.completions.create(...)
enhance_chunk_Create ==
    /\ enhancing.pc = "_enhance_chunk"
    /\ \/ \E raw \in RawResponses :
             enhancing' =
                 [enhancing EXCEPT
                     !.pc = "response",
                     !.user_prompt = user_prompt(enhancing.chunk,
                                                 enhancing.language),
                     !.raw = raw]
       \/ \E e \in CallFailures :
             enhancing' =
                 [enhancing EXCEPT
                     !.pc = "Done",
                     !.user_prompt = user_prompt(enhancing.chunk,
                                                 enhancing.language),
                     !.outcome = "raise",
                     !.exc = e]
    /\ UNCHANGED <<vars, extraction, loading, rewriting, splitting>>

\* enhanced_content = response.choices[0].message.content.strip()...
\* return enhanced_content
enhance_chunk_Return ==
    /\ enhancing.pc = "response"
    /\ enhancing' =
           [enhancing EXCEPT
               !.pc = "Done",
               !.result = enhanced_content(enhancing.raw),
               !.outcome = "return"]
    /\ UNCHANGED <<vars, extraction, loading, rewriting, splitting>>

EnhanceChunkNext ==
    \/ enhance_chunk_Create
    \/ enhance_chunk_Return

SpecEnhanceChunk == EnhanceChunkInit /\ [][EnhanceChunkNext]_<<vars, side>>

-----------------------------------------------------------------------------
(* Properties of the post-processing *)

\* the text before the closing delimiter, without the opening fence of the
\* wrapper it begins with, trimmed
Unwrapped(raw) ==
    LET before == split(strip(raw), CLOSING)[1]
    IN  strip(IF startswith(before, OPENING)
              THEN Slice(before, Len(OPENING) + 1, Len(before))
              ELSE before)

\* C24, as stated: the post-processing returns the text before the closing
\* delimiter without the wrapper's opening fence, trimmed; the text inside
\* the body, a code fence of its own included, is unchanged, and a response
\* without wrapper is returned trimmed.
C24_AsStated ==
    /\ "raw" \in DOMAIN enhancing
    /\ enhancing.pc = "Done"
    /\ enhancing.outcome = "return"
    => enhancing.result = Unwrapped(enhancing.raw)

====
